---- MODULE Spec2Model ----
(***************************************************************************)
(* Model of the expense-ledger programs: the Streamlit dashboard           *)
(* (src/src/dashboard.py), the analyze batch job                           *)
(* (src/src/analyze_expenses.py) and the visualize batch job               *)
(* (src/src/visualize_expenses.py).                                        *)
(*                                                                         *)
(* A spreadsheet is a set of present columns and a sequence of rows.       *)
(* A date cell is the year-month key of a parseable date (1..NMonths, in   *)
(* chronological order) or BadText; an amount cell is a number or BadText; *)
(* a category cell is a label (1..NCats, in ascending label order) or NaN  *)
(* (an empty cell).  Each row carries its position in the sheet as id.     *)
(***************************************************************************)
EXTENDS Integers, Sequences, FiniteSets

\* ------------------------------------------------------------------ bounds
MaxRows == 3
MaxOddRows == 2
NCats == 2
NMonths == 2
MaxAmount == 2
MaxN == 4

\* ------------------------------------------------------- cells and tables
\* an empty cell, as read_excel returns it
NaN == 0
\* a cell holding text that is neither a number nor a date
BadText == -1

Columns == {"date", "item", "amount", "category"}
required_columns == {"date", "item", "amount", "category"}

Categories == 1..NCats
Months == 1..NMonths
Amounts == 1..MaxAmount

DateCells == Months \cup {BadText}
AmountCells == Amounts \cup {BadText}
CategoryCells == Categories \cup {NaN}

\* the cells a column that is absent from the sheet contributes: a fixed filler
\* that no operation reads (every read of an absent column raises KeyError first)
CellsOf(cols, col, cells, filler) == IF col \in cols THEN cells ELSE {filler}

RowsOf(cols) ==
    [date : CellsOf(cols, "date", DateCells, 1),
     amount : CellsOf(cols, "amount", AmountCells, 1),
     category : CellsOf(cols, "category", CategoryCells, 1)]

\* the sheet holding the rows f[1], ..., f[n], ids in sheet order
Sheet(f, n) ==
    [i \in 1..n |-> [id |-> i, date |-> f[i].date, amount |-> f[i].amount,
                     category |-> f[i].category]]

NoText(rows) ==
    \A i \in 1..Len(rows) : rows[i].date # BadText /\ rows[i].amount # BadText

\* the spreadsheets of the model: every sheet of at most MaxOddRows rows over
\* every set of columns, and every sheet of at most MaxRows rows that has all
\* four columns and no text in a date or an amount cell
InModel(cols, rows) ==
    \/ Len(rows) <= MaxOddRows
    \/ Len(rows) <= MaxRows /\ cols = Columns /\ NoText(rows)

\* ------------------------------------------------------ sequence helpers
RECURSIVE SumAmount(_)
SumAmount(rows) ==
    IF rows = <<>> THEN 0 ELSE Head(rows).amount + SumAmount(Tail(rows))

RECURSIVE SumTotal(_)
SumTotal(s) == IF s = <<>> THEN 0 ELSE Head(s).total + SumTotal(Tail(s))

RECURSIVE SumCount(_)
SumCount(s) == IF s = <<>> THEN 0 ELSE Head(s).count + SumCount(Tail(s))

Range(s) == {s[i] : i \in 1..Len(s)}

\* the elements of a finite set of integers in ascending order
SortedSeq(S) ==
    CHOOSE s \in [1..Cardinality(S) -> S] : \A i, j \in 1..Cardinality(S) : i < j => s[i] < s[j]

Perms(n) == {p \in [1..n -> 1..n] : \A i, j \in 1..n : p[i] = p[j] => i = j}

\* s rearranged by the permutation p
Take(s, p) == [i \in 1..Len(s) |-> s[p[i]]]

\* Series.isin(values): NaN matches a NaN among the values
isin(cell, values) == cell \in values

\* ------------------------------------------------------- pandas sorting
\* The one ordering a stable descending sort of the keys gives: equal keys keep
\* their order.
StableDescending(keys) ==
    {p \in Perms(Len(keys)) :
        \A i, j \in 1..Len(keys) : i < j =>
            \/ keys[p[i]] > keys[p[j]]
            \/ keys[p[i]] = keys[p[j]] /\ p[i] < p[j]}

\* sort_values(by, ascending=False) with the default kind='quicksort', which is
\* not a stable sort: every ordering that is non-increasing in the key is an
\* outcome, the order among equal keys is not determined.
sort_values_descending(keys) ==
    {p \in Perms(Len(keys)) :
        \A i, j \in 1..Len(keys) : i < j => keys[p[i]] >= keys[p[j]]}

Totals(s) == [i \in 1..Len(s) |-> s[i].total]
AmountsOf(rows) == [i \in 1..Len(rows) |-> rows[i].amount]

\* ------------------------------------------------------ pandas groupby
\* df.groupby(key): the groups of the non-NaN keys, in ascending key order
\* (dropna=True and sort=True are the defaults); rows with a NaN key are in no group.
CategoryKeys(rows) == {r.category : r \in Range(rows)} \ {NaN}
MonthKeys(rows) == {r.ym : r \in Range(rows)} \ {NaN}

InCategory(rows, c) == LET Keep(r) == r.category = c IN SelectSeq(rows, Keep)
InMonth(rows, m) == LET Keep(r) == r.ym = m IN SelectSeq(rows, Keep)

\* df.groupby('category')['amount'].sum(): one entry per category, ascending label
groupby_category_sum(rows) ==
    LET ks == SortedSeq(CategoryKeys(rows))
    IN [i \in 1..Len(ks) |-> [category |-> ks[i], total |-> SumAmount(InCategory(rows, ks[i]))]]

\* df.groupby('ym')['amount'].sum(): one entry per year-month key, ascending
groupby_month_sum(rows) ==
    LET ks == SortedSeq(MonthKeys(rows))
    IN [i \in 1..Len(ks) |-> [ym |-> ks[i], total |-> SumAmount(InMonth(rows, ks[i]))]]

\* df.pivot_table(values='amount', index='ym', columns='category', aggfunc='sum',
\* fill_value=0): the rows are grouped by (ym, category), a row with a NaN in either
\* key is in no group; index and columns are the keys of the groups, ascending; a
\* pair without a group is filled with 0.
pivot_table(rows) ==
    LET grouped == LET Keep(r) == r.category # NaN /\ r.ym # NaN IN SelectSeq(rows, Keep)
        index == SortedSeq({r.ym : r \in Range(grouped)})
        columns == SortedSeq({r.category : r \in Range(grouped)})
        Cell(m, c) == LET Keep(r) == r.ym = m /\ r.category = c IN SelectSeq(grouped, Keep)
    IN [index |-> index, columns |-> columns,
        values |-> [mc \in Range(index) \X Range(columns) |->
                      IF Cell(mc[1], mc[2]) = <<>> THEN 0 ELSE SumAmount(Cell(mc[1], mc[2]))]]

\* ============================================================ dashboard.py
\* load_data returns None (load_data_ok is false) when a required column is
\* absent or pd.to_datetime raises on a date cell; otherwise the rows with the
\* derived year-month key.  The amount column is returned as read.
load_data_ok(t) ==
    /\ required_columns \subseteq t.cols
    /\ \A i \in 1..Len(t.rows) : t.rows[i].date # BadText

load_data(t) ==
    [i \in 1..Len(t.rows) |->
        [id |-> t.rows[i].id, date |-> t.rows[i].date, amount |-> t.rows[i].amount,
         category |-> t.rows[i].category, ym |-> t.rows[i].date]]

\* create_summary_metrics: sum() and mean() of the amount column and their
\* formatting with ',.0f' raise when the column holds text
create_summary_metrics_ok(df) == \A i \in 1..Len(df) : df[i].amount # BadText

\* apply_filter without the test for empty selections
apply_filter_always_isin(df, selected_categories, selected_months) ==
    LET Keep(r) == isin(r.category, selected_categories) /\ isin(r.ym, selected_months)
    IN SelectSeq(df, Keep)

\* main, lines 351-358: the filtered record set
apply_filter(df, selected_categories, selected_months) ==
    IF selected_categories # {} /\ selected_months # {}
    THEN LET Keep(r) == isin(r.category, selected_categories) /\ isin(r.ym, selected_months)
         IN SelectSeq(df, Keep)
    ELSE df

\* create_category_pie_chart: the slices, every outcome of the unstable sort
create_category_pie_chart(df) ==
    LET category_summary == groupby_category_sum(df)
    IN {Take(category_summary, p) : p \in sort_values_descending(Totals(category_summary))}

\* create_monthly_trend_chart: the bars; sort_values('ym') sorts keys that are
\* unique and already ascending
create_monthly_trend_chart(df, selected_categories) ==
    LET df_filtered ==
            IF selected_categories # {}
            THEN LET Keep(r) == isin(r.category, selected_categories) IN SelectSeq(df, Keep)
            ELSE df
    IN groupby_month_sum(df_filtered)

\* create_category_monthly_stacked_chart: the pivot and its long format (melt:
\* column by column, each column in index order)
create_category_monthly_stacked_chart(df) ==
    LET pivot_data == pivot_table(df)
        nr == Len(pivot_data.index)
        nc == Len(pivot_data.columns)
    IN [pivot |-> pivot_data,
        long |-> [k \in 1..(nr * nc) |->
                    LET c == pivot_data.columns[((k - 1) \div nr) + 1]
                        m == pivot_data.index[((k - 1) % nr) + 1]
                    IN [ym |-> m, category |-> c, amount |-> pivot_data.values[<<m, c>>]]]]

\* DataFrame.nlargest(n, 'amount') with keep='first': nothing for n <= 0; for
\* n >= len(df) pandas returns sort_values(ascending=False).head(n), the unstable
\* sort; otherwise the first n of the rows ordered by a stable (mergesort) sort.
nlargest(df, n) ==
    IF n <= 0 THEN {<<>>}
    ELSE IF n >= Len(df)
    THEN {Take(df, p) : p \in sort_values_descending(AmountsOf(df))}
    ELSE {SubSeq(Take(df, p), 1, n) : p \in StableDescending(AmountsOf(df))}

\* create_top_expenses_table: the columns date, item, category, amount of the n
\* largest rows (the id stands for the item); the date and the amount are
\* formatted as text of the same value ('%Y-%m-%d', '$' and ',.0f' of a whole number)
create_top_expenses_table(df, n) ==
    {[i \in 1..Len(top) |-> [id |-> top[i].id, date |-> top[i].date,
                             category |-> top[i].category, amount |-> top[i].amount]]
      : top \in nlargest(df, n)}

\* TOP_N: the n that main passes to create_top_expenses_table
TOP_N == 10

\* ===================================================== analyze_expenses.py
\* the three aggregates of one category group, .round(2): the amounts of the
\* model are whole numbers, so sum and count are exact and the mean is kept in
\* hundredths, rounded to the nearest
agg_sum_count_mean(rows, c) ==
    LET g == InCategory(rows, c)
    IN [category |-> c, total |-> SumAmount(g), count |-> Len(g),
        mean100 |-> (200 * SumAmount(g) + Len(g)) \div (2 * Len(g))]

\* lines 34-38: KeyError when the category or the amount column is absent,
\* TypeError when the amount column holds text (mean of an object column)
summarize_error(t) ==
    IF ~({"category", "amount"} \subseteq t.cols) THEN "KeyError"
    ELSE IF \E i \in 1..Len(t.rows) : t.rows[i].amount = BadText THEN "TypeError"
    ELSE "None"

\* lines 34-41: the category summary, every outcome of the unstable sort
analyze_category_summary(rows) ==
    LET ks == SortedSeq(CategoryKeys(rows))
        grouped == [i \in 1..Len(ks) |-> agg_sum_count_mean(rows, ks[i])]
    IN {Take(grouped, p) : p \in sort_values_descending(Totals(grouped))}

\* the sheets analyze_expenses writes, in the order it writes them
SheetOrder == <<"raw", "summary", "highlight">>

\* =================================================== visualize_expenses.py
\* line 216: df['date'].min() and .max() raise KeyError without the column and
\* TypeError when the column mixes dates and text
date_range_error(t) ==
    IF "date" \notin t.cols THEN "KeyError"
    ELSE IF /\ \E i \in 1..Len(t.rows) : t.rows[i].date = BadText
            /\ \E i \in 1..Len(t.rows) : t.rows[i].date # BadText THEN "TypeError"
    ELSE "None"

\* create_category_pie_chart (visualize): KeyError without the category or the
\* amount column, TypeError when the amounts hold text
viz_pie_error(cols, rows) ==
    IF ~({"category", "amount"} \subseteq cols) THEN "KeyError"
    ELSE IF \E i \in 1..Len(rows) : rows[i].amount = BadText THEN "TypeError"
    ELSE "None"

viz_create_category_pie_chart(rows) ==
    LET category_summary == groupby_category_sum(rows)
    IN {Take(category_summary, p) : p \in sort_values_descending(Totals(category_summary))}

\* lines 72 and 136: pd.to_datetime raises on a text cell
to_datetime_error(rows) ==
    IF \E i \in 1..Len(rows) : rows[i].date = BadText THEN "ValueError" ELSE "None"

\* lines 72-75 and 136-137: the frame passed in gets its date column converted
\* and a year-month column added, in place
with_year_month(rows) ==
    [i \in 1..Len(rows) |->
        [id |-> rows[i].id, date |-> rows[i].date, amount |-> rows[i].amount,
         category |-> rows[i].category, ym |-> rows[i].date]]

\* a frame as read_excel returns it: no year-month column yet
as_read(rows) ==
    [i \in 1..Len(rows) |->
        [id |-> rows[i].id, date |-> rows[i].date, amount |-> rows[i].amount,
         category |-> rows[i].category, ym |-> NaN]]

\* create_category_monthly_trend_chart: DataFrame.plot raises TypeError on a
\* pivot without columns (no numeric data to plot)
viz_stacked_error(rows) ==
    IF to_datetime_error(rows) # "None" THEN to_datetime_error(rows)
    ELSE IF Len(pivot_table(with_year_month(rows)).columns) = 0 THEN "TypeError"
    ELSE "None"

\* ================================================================== state
VARIABLES
    table,                 \* the spreadsheet: [cols, rows]
    prog,                  \* the program run on it: none, dashboard, call, analyze, visualize
    dstatus,               \* dashboard: idle, load_error, metrics_error, empty, shown
    df,                    \* dashboard: the frame load_data returned
    selected_categories, selected_months,
    df_filtered, pie, trend, stacked, top_expenses, download,
    topcall,               \* a call of create_top_expenses_table(load_data(table), n)
    apc,                   \* analyze: start, read, summarized, leading, writing, done, failed, not_found
    aexc,                  \* analyze: the exception main's handler caught
    afailed_at,            \* analyze: the step that raised it
    category_summary, max_category,
    sheets,                \* analyze: the sheets added to the open writer
    workbook,              \* analyze: the sheets of the output file on disk
    vpc,                   \* visualize: start, read, pie, monthly, done, failed, not_found
    vexc,                  \* visualize: the exception main's handler caught
    vfailed_at,            \* visualize: the step that raised it
    vdf,                   \* visualize: the frame, which two chart functions change in place
    charts,                \* visualize: the chart files saved
    vpie, vmonthly, vpivot

dvars == <<dstatus, df, selected_categories, selected_months, df_filtered, pie, trend,
           stacked, top_expenses, download, topcall>>
avars == <<apc, aexc, afailed_at, category_summary, max_category, sheets, workbook>>
vvars == <<vpc, vexc, vfailed_at, vdf, charts, vpie, vmonthly, vpivot>>
vars == <<table, prog, dvars, avars, vvars>>

NoStacked == create_category_monthly_stacked_chart(<<>>)
NoCall == [called |-> FALSE, n |-> 0, result |-> <<>>]

Init ==
    /\ \E cols \in SUBSET Columns : \E n \in 0..MaxRows : \E f \in [1..n -> RowsOf(cols)] :
          /\ InModel(cols, Sheet(f, n))
          /\ table = [cols |-> cols, rows |-> Sheet(f, n)]
    /\ prog = "none"
    /\ dstatus = "idle" /\ df = <<>>
    /\ selected_categories = {} /\ selected_months = {}
    /\ df_filtered = <<>> /\ pie = <<>> /\ trend = <<>> /\ stacked = NoStacked
    /\ top_expenses = <<>> /\ download = <<>> /\ topcall = NoCall
    /\ apc = "start" /\ aexc = "None" /\ afailed_at = "None" /\ category_summary = <<>> /\ max_category = NaN
    /\ sheets = <<>> /\ workbook = <<>>
    /\ vpc = "start" /\ vexc = "None" /\ vfailed_at = "None" /\ vdf = <<>> /\ charts = {}
    /\ vpie = <<>> /\ vmonthly = <<>> /\ vpivot = NoStacked.pivot

\* ------------------------------------------------------- dashboard: main
all_categories(d) == {d[i].category : i \in 1..Len(d)}
all_months(d) == {d[i].ym : i \in 1..Len(d)}

NoViews ==
    /\ df_filtered' = <<>> /\ pie' = <<>> /\ trend' = <<>> /\ stacked' = NoStacked
    /\ top_expenses' = <<>> /\ download' = <<>>

\* one run of the script, lines 313-426, with the widgets holding C and M
DashboardMain(C, M) ==
    /\ topcall' = NoCall
    /\ IF ~load_data_ok(table)
       THEN /\ dstatus' = "load_error" /\ df' = <<>>
            /\ selected_categories' = {} /\ selected_months' = {}
            /\ NoViews
       ELSE /\ df' = load_data(table)
            /\ IF ~create_summary_metrics_ok(df')
               THEN /\ dstatus' = "metrics_error"
                    /\ selected_categories' = {} /\ selected_months' = {}
                    /\ NoViews
               ELSE /\ selected_categories' = C /\ selected_months' = M
                    /\ df_filtered' = apply_filter(df', C, M)
                    /\ IF Len(df_filtered') = 0
                       THEN /\ dstatus' = "empty"
                            /\ pie' = <<>> /\ trend' = <<>> /\ stacked' = NoStacked
                            /\ top_expenses' = <<>> /\ download' = <<>>
                       ELSE /\ dstatus' = "shown"
                            /\ pie' \in create_category_pie_chart(df_filtered')
                            /\ trend' = create_monthly_trend_chart(df_filtered', C)
                            /\ stacked' = create_category_monthly_stacked_chart(df_filtered')
                            /\ top_expenses' \in create_top_expenses_table(df_filtered', TOP_N)
                            /\ download' = df_filtered'

\* the file is uploaded: the first run, both multiselects at their default (all)
Upload ==
    /\ prog = "none"
    /\ prog' = "dashboard"
    /\ DashboardMain(all_categories(load_data(table)), all_months(load_data(table)))
    /\ UNCHANGED <<table, avars, vvars>>

\* the user adds an option to a multiselect or removes one: the script runs again
Toggle(S, x) == IF x \in S THEN S \ {x} ELSE S \cup {x}

Rerun ==
    /\ prog = "dashboard"
    /\ dstatus \in {"empty", "shown"}
    /\ \/ \E c \in all_categories(df) :
             DashboardMain(Toggle(selected_categories, c), selected_months)
       \/ \E m \in all_months(df) :
             DashboardMain(selected_categories, Toggle(selected_months, m))
    /\ UNCHANGED <<table, prog, avars, vvars>>

\* create_top_expenses_table called on a loaded frame with an n of the caller's
\* choice
TopExpensesCall ==
    /\ prog = "none"
    /\ load_data_ok(table) /\ create_summary_metrics_ok(load_data(table))
    /\ prog' = "call"
    /\ \E n \in 0..MaxN : \E result \in create_top_expenses_table(load_data(table), n) :
          topcall' = [called |-> TRUE, n |-> n, result |-> result]
    /\ UNCHANGED <<table, dstatus, df, selected_categories, selected_months,
                   df_filtered, pie, trend, stacked, top_expenses, download, avars, vvars>>

\* ------------------------------------------------ analyze_expenses: main
\* an exception leaves analyze_expenses and is caught by main, lines 106-109
AnalyzeRaise(exc) ==
    /\ aexc' = exc
    /\ afailed_at' = apc
    /\ apc' = "failed"

\* main, lines 88-90: the input file does not exist
AnalyzeNotFound ==
    /\ prog = "none"
    /\ prog' = "analyze"
    /\ apc' = "not_found"
    /\ UNCHANGED <<table, dvars, aexc, afailed_at, category_summary, max_category,
                   sheets, workbook, vvars>>

\* line 25: read_excel, which raises on a file it cannot read
AnalyzeRead ==
    /\ prog = "none"
    /\ prog' = "analyze"
    /\ \/ AnalyzeRaise("OSError")
       \/ apc' = "read" /\ UNCHANGED <<aexc, afailed_at>>
    /\ UNCHANGED <<table, dvars, category_summary, max_category, sheets, workbook, vvars>>

\* lines 34-41: groupby, agg, round, sort_values
AnalyzeSummarize ==
    /\ prog = "analyze" /\ apc = "read"
    /\ IF summarize_error(table) # "None"
       THEN AnalyzeRaise(summarize_error(table)) /\ UNCHANGED category_summary
       ELSE /\ category_summary' \in analyze_category_summary(table.rows)
            /\ apc' = "summarized"
            /\ UNCHANGED <<aexc, afailed_at>>
    /\ UNCHANGED <<table, prog, dvars, max_category, sheets, workbook, vvars>>

\* lines 47-48: category_summary.index[0], IndexError on an empty summary
AnalyzeLeading ==
    /\ prog = "analyze" /\ apc = "summarized"
    /\ IF Len(category_summary) = 0
       THEN AnalyzeRaise("IndexError") /\ UNCHANGED max_category
       ELSE /\ max_category' = category_summary[1].category
            /\ apc' = "leading"
            /\ UNCHANGED <<aexc, afailed_at>>
    /\ UNCHANGED <<table, prog, dvars, category_summary, sheets, workbook, vvars>>

\* line 57: pd.ExcelWriter(output_file) opens the output file, or raises
AnalyzeOpenWriter ==
    /\ prog = "analyze" /\ apc = "leading"
    /\ \/ AnalyzeRaise("OSError") /\ UNCHANGED <<sheets, workbook>>
       \/ /\ apc' = "writing"
          /\ sheets' = <<>>
          /\ workbook' = <<>>
          /\ UNCHANGED <<aexc, afailed_at>>
    /\ UNCHANGED <<table, prog, dvars, category_summary, max_category, vvars>>

\* lines 59, 62, 71: one to_excel inside the with block; when it raises, the
\* writer's __exit__ closes the writer, which saves the sheets added so far
AnalyzeWriteSheet ==
    /\ prog = "analyze" /\ apc = "writing"
    /\ Len(sheets) < Len(SheetOrder)
    /\ \/ /\ AnalyzeRaise("WriteError")
          /\ workbook' = sheets
          /\ UNCHANGED sheets
       \/ /\ sheets' = Append(sheets, SheetOrder[Len(sheets) + 1])
          /\ UNCHANGED <<apc, aexc, afailed_at, workbook>>
    /\ UNCHANGED <<table, prog, dvars, category_summary, max_category, vvars>>

\* the with block ends: the writer saves the workbook; lines 73-75 and 99-104
AnalyzeClose ==
    /\ prog = "analyze" /\ apc = "writing"
    /\ Len(sheets) = Len(SheetOrder)
    /\ workbook' = sheets
    /\ apc' = "done"
    /\ UNCHANGED <<table, prog, dvars, aexc, afailed_at, category_summary, max_category,
                   sheets, vvars>>

\* ---------------------------------------------- visualize_expenses: main
VisualizeRaise(exc) ==
    /\ vexc' = exc
    /\ vfailed_at' = vpc
    /\ vpc' = "failed"

\* main, lines 206-208: the input file does not exist
VisualizeNotFound ==
    /\ prog = "none"
    /\ prog' = "visualize"
    /\ vpc' = "not_found"
    /\ UNCHANGED <<table, dvars, avars, vexc, vfailed_at, vdf, charts, vpie, vmonthly, vpivot>>

\* lines 213-216: read_excel and the date range
VisualizeRead ==
    /\ prog = "none"
    /\ prog' = "visualize"
    /\ \/ VisualizeRaise("OSError") /\ UNCHANGED vdf
       \/ IF date_range_error(table) # "None"
          THEN VisualizeRaise(date_range_error(table)) /\ UNCHANGED vdf
          ELSE /\ vdf' = as_read(table.rows)
               /\ vpc' = "read"
               /\ UNCHANGED <<vexc, vfailed_at>>
    /\ UNCHANGED <<table, dvars, avars, charts, vpie, vmonthly, vpivot>>

\* line 220: create_category_pie_chart(df, pie_chart_path)
VisualizePie ==
    /\ prog = "visualize" /\ vpc = "read"
    /\ IF viz_pie_error(table.cols, vdf) # "None"
       THEN VisualizeRaise(viz_pie_error(table.cols, vdf)) /\ UNCHANGED <<vpie, charts>>
       ELSE /\ vpie' \in viz_create_category_pie_chart(vdf)
            /\ charts' = charts \cup {"pie"}
            /\ vpc' = "pie"
            /\ UNCHANGED <<vexc, vfailed_at>>
    /\ UNCHANGED <<table, prog, dvars, avars, vdf, vmonthly, vpivot>>

\* line 224: create_monthly_trend_chart(df, bar_chart_path)
VisualizeMonthly ==
    /\ prog = "visualize" /\ vpc = "pie"
    /\ IF to_datetime_error(vdf) # "None"
       THEN VisualizeRaise(to_datetime_error(vdf)) /\ UNCHANGED <<vdf, vmonthly, charts>>
       ELSE /\ vdf' = with_year_month(vdf)
            /\ vmonthly' = groupby_month_sum(vdf')
            /\ charts' = charts \cup {"monthly"}
            /\ vpc' = "monthly"
            /\ UNCHANGED <<vexc, vfailed_at>>
    /\ UNCHANGED <<table, prog, dvars, avars, vpie, vpivot>>

\* line 228: create_category_monthly_trend_chart(df, stacked_chart_path)
VisualizeStacked ==
    /\ prog = "visualize" /\ vpc = "monthly"
    /\ IF viz_stacked_error(vdf) # "None"
       THEN VisualizeRaise(viz_stacked_error(vdf)) /\ UNCHANGED <<vdf, vpivot, charts>>
       ELSE /\ vdf' = with_year_month(vdf)
            /\ vpivot' = pivot_table(vdf')
            /\ charts' = charts \cup {"stacked"}
            /\ vpc' = "done"
            /\ UNCHANGED <<vexc, vfailed_at>>
    /\ UNCHANGED <<table, prog, dvars, avars, vpie, vmonthly>>

Next ==
    \/ Upload
    \/ Rerun
    \/ TopExpensesCall
    \/ AnalyzeNotFound
    \/ AnalyzeRead
    \/ AnalyzeSummarize
    \/ AnalyzeLeading
    \/ AnalyzeOpenWriter
    \/ AnalyzeWriteSheet
    \/ AnalyzeClose
    \/ VisualizeNotFound
    \/ VisualizeRead
    \/ VisualizePie
    \/ VisualizeMonthly
    \/ VisualizeStacked

Spec == Init /\ [][Next]_vars

\* ================================================================= claims
Rendered == prog = "dashboard" /\ dstatus \in {"empty", "shown"}

\* C1: the filtered record set keeps a record iff (no category is selected or
\* its category is selected) and (no month is selected or its month is
\* selected), each dimension restricting on its own.
C1_FilterEachDimension ==
    Rendered =>
        \A i \in 1..Len(df) :
            (df[i] \in Range(df_filtered)) <=>
                /\ selected_categories = {} \/ df[i].category \in selected_categories
                /\ selected_months = {} \/ df[i].ym \in selected_months

\* C2: with no category and no month selected the filtered record set is the
\* loaded record set: the same records in the same order.
C2_EmptyFilterIdentity ==
    (Rendered /\ selected_categories = {} /\ selected_months = {}) => df_filtered = df

\* C2: a frame of two records or more is shown with both selections empty
C2_Witness ==
    /\ prog = "dashboard" /\ dstatus = "shown"
    /\ selected_categories = {} /\ selected_months = {}
    /\ Len(df) >= 2 /\ download = df

\* a summary is ordered by total, non-increasing, equal totals by ascending label
OrderedByTotalThenLabel(s) ==
    \A i, j \in 1..Len(s) : i < j =>
        \/ s[i].total > s[j].total
        \/ s[i].total = s[j].total /\ s[i].category < s[j].category

C4_Conservation ==
    (/\ prog = "analyze" /\ apc \in {"summarized", "leading", "writing", "done"}
     /\ load_data_ok(table))
        => /\ SumTotal(category_summary) = SumAmount(table.rows)
           /\ SumCount(category_summary) = Len(table.rows)

\* C5: when the category summary is empty, selecting the leading category ends
\* the run in a NoDataError outcome of its own, not in the outcome shared with
\* the other failures.
C5_NoDataError ==
    (prog = "analyze" /\ afailed_at = "summarized")
        => (aexc = "NoDataError" /\ apc # "failed")

MissingColumn == ~(required_columns \subseteq table.cols)

\* C6: when a required column is absent, each entry point fails before any
\* aggregation and produces no summary, chart, table or export.
C6_SchemaError ==
    MissingColumn =>
        /\ prog = "dashboard" => dstatus = "load_error"
        /\ prog = "analyze" =>
              /\ apc \notin {"summarized", "leading", "writing", "done"}
              /\ category_summary = <<>> /\ workbook = <<>>
        /\ prog = "visualize" => (vpc \notin {"pie", "monthly", "done"} /\ charts = {})

\* C7: when a row holds a date or an amount that cannot be converted, load_data
\* rejects the whole load.
C7_RejectWholeLoad ==
    (/\ prog = "dashboard"
     /\ ~MissingColumn
     /\ \E i \in 1..Len(table.rows) :
           table.rows[i].date = BadText \/ table.rows[i].amount = BadText)
        => (dstatus = "load_error" /\ df = <<>>)

RECURSIVE SumCells(_, _)
SumCells(values, cells) ==
    IF cells = <<>> THEN 0 ELSE values[Head(cells)] + SumCells(values, Tail(cells))

RowSum(p, m) == SumCells(p.values, [k \in 1..Len(p.columns) |-> <<m, p.columns[k]>>])
ColumnSum(p, c) == SumCells(p.values, [k \in 1..Len(p.index) |-> <<p.index[k], c>>])

\* the pivot p of the record set R has a cell for every (month of R, category
\* of R), 0 where no record is, and its row and column sums are the totals of
\* the by-month summary and of the by-category summary
PivotConsistent(p, R, by_month, by_category) ==
    /\ Range(p.index) = {R[i].ym : i \in 1..Len(R)}
    /\ Range(p.columns) = {R[i].category : i \in 1..Len(R)}
    /\ \A mc \in DOMAIN p.values :
          (~\E i \in 1..Len(R) : R[i].ym = mc[1] /\ R[i].category = mc[2]) => p.values[mc] = 0
    /\ Len(by_month) = Len(p.index)
    /\ \A k \in 1..Len(by_month) :
          by_month[k].ym \in Range(p.index) /\ RowSum(p, by_month[k].ym) = by_month[k].total
    /\ Len(by_category) = Len(p.columns)
    /\ \A k \in 1..Len(by_category) :
          /\ by_category[k].category \in Range(p.columns)
          /\ ColumnSum(p, by_category[k].category) = by_category[k].total

\* C8: the month x category pivot has a cell for every (month, category) of the
\* record set, holds 0 where no record is, and its row sums and column sums are
\* the by-month and the by-category totals.
C8_PivotCrossConsistent ==
    /\ (prog = "dashboard" /\ dstatus = "shown") =>
          PivotConsistent(stacked.pivot, df_filtered, groupby_month_sum(df_filtered), pie)
    /\ (prog = "visualize" /\ vpc = "done") => PivotConsistent(vpivot, vdf, vmonthly, vpie)

Min(a, b) == IF a <= b THEN a ELSE b

C10_SameFilteredSet ==
    (/\ prog = "dashboard" /\ dstatus = "shown"
     /\ \A i \in 1..Len(df) : df[i].category # NaN)
        => /\ SumTotal(trend) = SumTotal(pie)
           /\ download = df_filtered

\* C11: an analyze run is all-or-nothing with respect to its output file: a
\* run that succeeds leaves the workbook with all three sheets, and at no point
\* of any run, whatever step fails, does the output file hold a workbook with
\* only some of the three sheets.
C11_AllOrNothing ==
    prog = "analyze" =>
        /\ apc = "done" => workbook = SheetOrder
        /\ apc # "done" => workbook = <<>>

\* C12: every chart-building call of the visualize job leaves the record set
\* it was given unchanged: the frame passed to each of the three chart functions,
\* and the frame after the last of them, is the record set as loaded (same
\* columns, same values, same order).
C12_FrameUnchanged ==
    (prog = "visualize" /\ vpc \in {"read", "pie", "monthly", "done"})
        => vdf = as_read(table.rows)

====
